---- MODULE Spec2Model ----
(***************************************************************************)
(* A model of Soup's VALORANT Replay Tool:                                 *)
(*   - the GUI of modern_replay_injector_ui.py (file selection, START      *)
(*     INJECTION / Stop Monitor / Restore Original, the poll thread        *)
(*     custom_monitoring_loop),                                            *)
(*   - ReplayFileManager of replay_file_manager.py (backup, injection,     *)
(*     restore of the host replay file),                                   *)
(*   - RegionConfig of region_config.py with the GUI's region detection    *)
(*     and the metadata threads of refresh_replay_list,                    *)
(*   - the lock-file check of ModernReplayInjectorGUI.__init__.            *)
(* The specifications share the variables, and each holds the parts it does *)
(* not move at their initial value:                                         *)
(*   Spec, FairSpec       monitoring and files, the whole GUI               *)
(*   SingleLoopSpec       Spec with START clicked only when no loop runs    *)
(*   RegionSpec, FairRegionSpec   regions and metadata threads              *)
(*   LockSpec             tool processes starting                           *)
(*   ConfigSpec, FileSpec, MetadataSpec   direct calls of RegionConfig,     *)
(*                        ReplayFileManager and ReplayMetadataFetcher       *)
(***************************************************************************)
EXTENDS Naturals, Sequences, FiniteSets

VARIABLES
    \* ---- the game client and the clock (environment)
    client,                  \* the client's loopState
    client_up,               \* TRUE when the session endpoint answers 200
    now,                     \* int(time.time())
    \* ---- ModernReplayInjectorGUI (GUI thread)
    pending_host_replay,
    selected_host_replay,
    host_confirmed,
    selected_injection_file,
    injection_ready,
    monitoring_active,
    start_btn, stop_btn, restore_btn, confirm_host_btn,
    gui_pc,                  \* "idle", or "dialog" while the modal "Injection Active" box is open
    \* ---- custom_monitoring_loop threads
    t_pc,                    \* position of each poll thread
    previous_state,          \* the loop's local previous_state
    last_polled,             \* loopState returned by the thread's latest successful poll
    injected_over,           \* the content the host file had before the thread's latest
                             \* successful injection, None once the thread has observed
                             \* a state change other than the REPLAY -> MENUS after it
    \* ---- ReplayFileManager and the files
    host_content,            \* content of the host replay file
    backups,                 \* replay_backups/<stem>_backup_<timestamp>.vrf : timestamp -> content
    current_backup,          \* <<>> for None, <<timestamp>> for the backup path
    last_copy_ok,            \* result of the latest shutil.copy2
    \* ---- region_config, ReplayMetadataFetcher, SessionMonitor.credentials
    current_region,
    fetcher_region,          \* metadata_fetcher.region
    credentials,             \* <<>> for None, <<game_api_base>> otherwise
    lockfile_present,        \* the Riot Client lockfile exists (VALORANT is running)
    startup_detection_due,   \* root.after(1000, attempt_startup_region_detection) not yet run
    region_status,           \* region_status_var
    meta_left,               \* per load_metadata_async thread: replays still to fetch (0: not running)
    \* ---- tool processes and the lock file
    p_pc,
    lock_exists,
    lock_pid,
    \* ---- a direct call of a RegionConfig, ReplayFileManager or
    \*      ReplayMetadataFetcher method (ConfigSpec, FileSpec, MetadataSpec)
    last_call,               \* <<>> before the first call, else <<method, arguments...>>
    last_result              \* what the call returned

vars == <<client, client_up, now,
          pending_host_replay, selected_host_replay, host_confirmed,
          selected_injection_file, injection_ready, monitoring_active,
          start_btn, stop_btn, restore_btn, confirm_host_btn, gui_pc,
          t_pc, previous_state, last_polled, injected_over,
          host_content, backups, current_backup, last_copy_ok,
          current_region, fetcher_region, credentials, lockfile_present,
          startup_detection_due, region_status, meta_left,
          p_pc, lock_exists, lock_pid, last_call, last_result>>

envVars    == <<client, client_up, now>>
guiVars    == <<pending_host_replay, selected_host_replay, host_confirmed,
                selected_injection_file, injection_ready, monitoring_active,
                start_btn, stop_btn, restore_btn, confirm_host_btn, gui_pc>>
selVars    == <<pending_host_replay, selected_host_replay, host_confirmed,
                selected_injection_file, injection_ready, confirm_host_btn>>
threadVars == <<t_pc, previous_state, last_polled, injected_over>>
fileVars   == <<host_content, backups, current_backup, last_copy_ok>>
regionVars == <<current_region, fetcher_region, credentials, lockfile_present,
                startup_detection_due, region_status, meta_left>>
lockVars   == <<p_pc, lock_exists, lock_pid>>
callVars   == <<last_call, last_result>>

\* ---------------------------------------------------------------- bounds
MaxThreads == 2       \* poll threads alive at once
MaxTime    == 1       \* the clock runs 0..MaxTime
MaxMeta    == 2       \* load_metadata_async threads alive at once
NReplays   == 2       \* .vrf files in the replay directory
NProcs     == 3       \* tool processes

Threads     == 1..MaxThreads
Timestamps  == 0..MaxTime
MetaThreads == 1..MaxMeta
Procs       == 1..NProcs

None == "None"
LoopStates == {"MENUS", "REPLAY", "INGAME"}
HostFile      == "host.vrf"
InjectionFile == "injection.vrf"

\* ------------------------------------------------ region_config.RegionConfig
AVAILABLE_REGIONS == <<"na", "eu", "ap", "kr", "latam", "br", "pbe">>
AvailableRegionCodes == {AVAILABLE_REGIONS[i] : i \in 1..Len(AVAILABLE_REGIONS)}
\* codes that are no region: the test's 'invalid_region' and the empty string
OtherRegionCodes == {"invalid_region", ""}
RegionCodes == AvailableRegionCodes \cup OtherRegionCodes

REGION_SHARD_MAP ==
    [r \in AvailableRegionCodes |->
        CASE r = "na" -> "na" [] r = "latam" -> "na" [] r = "br" -> "na"
          [] r = "eu" -> "eu" [] r = "ap" -> "ap" [] r = "kr" -> "kr"
          [] r = "pbe" -> "pbe"]

\* a lookup without the 'na' default
get_shard_nodefault(region) ==
    IF region \in DOMAIN REGION_SHARD_MAP THEN REGION_SHARD_MAP[region] ELSE region

get_shard(region) ==
    IF region \in DOMAIN REGION_SHARD_MAP THEN REGION_SHARD_MAP[region] ELSE "na"

\* a glz host built from the shard alone
get_glz_api_base_shard(region) == <<"glz", get_shard(region), get_shard(region)>>

\* f"https://glz-{region}-1.{shard}.a.pvp.net", kept as its two parts
get_glz_api_base(region) == <<"glz", region, get_shard(region)>>

\* a set_region without the membership test
set_region_unchecked(region, cur) == region

\* a set_region that stores the shard in place of the region
set_region_shard(region, cur) ==
    IF region \notin AvailableRegionCodes THEN cur ELSE get_shard(region)

\* set_region: the value of current_region after the call
set_region(region, cur) ==
    IF region \notin AvailableRegionCodes THEN cur ELSE region

\* set_region's return value
set_region_ok(region) == region \in AvailableRegionCodes

\* regions_to_try of detect_region_from_config_endpoint
regions_to_try == <<"na", "eu", "ap", "kr">>

\* detect_region_from_config_endpoint: `answers` is the set of regions whose
\* config endpoint returns 200; the first of regions_to_try among them, else None
detect_region_from_config_endpoint(answers) ==
    IF \E i \in 1..Len(regions_to_try) : regions_to_try[i] \in answers
    THEN regions_to_try[CHOOSE i \in 1..Len(regions_to_try) :
                            /\ regions_to_try[i] \in answers
                            /\ \A j \in 1..(i-1) : regions_to_try[j] \notin answers]
    ELSE None

\* ------------------------------------------------------------ initial parts
EnvInit ==
    /\ client = "MENUS"
    /\ client_up = TRUE
    /\ now = 0

GuiInit ==
    /\ pending_host_replay = None
    /\ selected_host_replay = None
    /\ host_confirmed = FALSE
    /\ selected_injection_file = None
    /\ injection_ready = FALSE
    /\ monitoring_active = FALSE
    /\ start_btn = "normal"
    /\ stop_btn = "disabled"
    /\ restore_btn = "disabled"
    /\ confirm_host_btn = "disabled"
    /\ gui_pc = "idle"

ThreadInit ==
    /\ t_pc = [t \in Threads |-> "none"]
    /\ previous_state = [t \in Threads |-> None]
    /\ last_polled = [t \in Threads |-> None]
    /\ injected_over = [t \in Threads |-> None]

FileInit ==
    /\ host_content = "original"
    /\ backups = [ts \in Timestamps |-> "absent"]
    /\ current_backup = <<>>
    /\ last_copy_ok = TRUE

\* the region part as Spec and LockSpec hold it: VALORANT running, credentials read
RegionIdle ==
    /\ current_region = "na"
    /\ fetcher_region = "na"
    /\ credentials = <<get_glz_api_base("na")>>
    /\ lockfile_present = TRUE
    /\ startup_detection_due = FALSE
    /\ region_status = "default"
    /\ meta_left = [m \in MetaThreads |-> 0]

LockIdle ==
    /\ p_pc = [p \in Procs |-> "start"]
    /\ lock_exists = FALSE
    /\ lock_pid = 0

\* no method has been called directly
CallIdle ==
    /\ last_call = <<>>
    /\ last_result = None

\* ------------------------------------------- replay_file_manager.ReplayFileManager
\* The three operations are functions of the file state (host file content,
\* backup directory, current_backup), the clock and whether shutil.copy2 succeeds;
\* each returns the new file state and its return value.
FileState(host, bk, cb, copied, result) ==
    [host |-> host, backups |-> bk, current_backup |-> cb,
     last_copy_ok |-> copied, result |-> result]

\* a backup that forgets to set current_backup
backup_file_keep_current(host, bk, cb, t, ok) ==
    IF ok
    THEN FileState(host, [bk EXCEPT ![t] = host], cb, TRUE, TRUE)
    ELSE FileState(host, bk, cb, FALSE, FALSE)

\* backup_file(replay_file): copy the host file to <stem>_backup_<int(time.time())>.vrf
backup_file(host, bk, cb, t, ok) ==
    IF ok
    THEN FileState(host, [bk EXCEPT ![t] = host], <<t>>, TRUE, TRUE)
    ELSE FileState(host, bk, cb, FALSE, FALSE)

\* an injection that overwrites the host file first and makes the backup after
inject_copy_first(host, bk, cb, t, okBackup, okCopy) ==
    IF ~okCopy
    THEN FileState(host, bk, cb, FALSE, FALSE)
    ELSE backup_file("injected", bk, cb, t, okBackup)

\* inject_replay_file(host_file, injection_file): backup first, then copy the
\* injection file over the host file
inject_replay_file(host, bk, cb, t, okBackup, okCopy) ==
    LET b == backup_file(host, bk, cb, t, okBackup) IN
    IF ~b.result
    THEN b
    ELSE IF okCopy
         THEN FileState("injected", b.backups, b.current_backup, TRUE, TRUE)
         ELSE FileState(b.host, b.backups, b.current_backup, FALSE, FALSE)

\* restore_original_file(): copy current_backup back over the original name
restore_original_file(host, bk, cb, copied, ok) ==
    IF cb = <<>> \/ bk[cb[1]] = "absent"
    THEN FileState(host, bk, cb, copied, FALSE)
    ELSE IF ok
         THEN FileState(bk[cb[1]], bk, cb, TRUE, TRUE)
         ELSE FileState(host, bk, cb, FALSE, FALSE)

SetFiles(f) ==
    /\ host_content' = f.host
    /\ backups' = f.backups
    /\ current_backup' = f.current_backup
    /\ last_copy_ok' = f.last_copy_ok

\* SessionMonitor.get_session_info(): a session only with credentials and a 200 answer
get_session_info == credentials # <<>> /\ client_up

\* ModernReplayInjectorGUI.restore_original(): restore, and on success disable the button
restore_original(ok) ==
    LET f == restore_original_file(host_content, backups, current_backup, last_copy_ok, ok) IN
    /\ SetFiles(f)
    /\ restore_btn' = IF f.result THEN "disabled" ELSE restore_btn

\* --------------------------------------------------------- environment steps
ClientChange ==
    /\ \E s \in LoopStates \ {client} : client' = s
    /\ UNCHANGED <<client_up, now>>
    /\ UNCHANGED <<guiVars, threadVars, fileVars, regionVars, lockVars, callVars>>

ClientUpDown ==
    /\ client_up' = ~client_up
    /\ UNCHANGED <<client, now>>
    /\ UNCHANGED <<guiVars, threadVars, fileVars, regionVars, lockVars, callVars>>

Tick ==
    /\ now < MaxTime
    /\ now' = now + 1
    /\ UNCHANGED <<client, client_up>>
    /\ UNCHANGED <<guiVars, threadVars, fileVars, regionVars, lockVars, callVars>>

\* ------------------------------------------------------- GUI: file selection
\* update_injection_ready: the value it gives injection_ready
update_injection_ready(confirmed, host, injection) ==
    confirmed /\ host # None /\ injection # None

\* on_host_replay_hover with a row selected: preview it, enable the confirm button
on_host_replay_hover ==
    /\ gui_pc = "idle"
    /\ pending_host_replay' = HostFile
    /\ confirm_host_btn' = "normal"
    /\ UNCHANGED <<selected_host_replay, host_confirmed, selected_injection_file,
                   injection_ready, monitoring_active, start_btn, stop_btn,
                   restore_btn, gui_pc>>
    /\ UNCHANGED <<envVars, threadVars, fileVars, regionVars, lockVars, callVars>>

\* on_host_replay_hover with no row selected (the tree was cleared)
on_host_replay_unselect ==
    /\ gui_pc = "idle"
    /\ pending_host_replay # None
    /\ pending_host_replay' = None
    /\ confirm_host_btn' = "disabled"
    /\ UNCHANGED <<selected_host_replay, host_confirmed, selected_injection_file,
                   injection_ready, monitoring_active, start_btn, stop_btn,
                   restore_btn, gui_pc>>
    /\ UNCHANGED <<envVars, threadVars, fileVars, regionVars, lockVars, callVars>>

confirm_host_selection ==
    /\ gui_pc = "idle"
    /\ confirm_host_btn = "normal"
    /\ IF pending_host_replay # None
       THEN /\ selected_host_replay' = pending_host_replay
            /\ host_confirmed' = TRUE
            /\ confirm_host_btn' = "disabled"
            /\ injection_ready' =
                 update_injection_ready(TRUE, pending_host_replay, selected_injection_file)
       ELSE UNCHANGED <<selected_host_replay, host_confirmed, confirm_host_btn,
                        injection_ready>>
    /\ UNCHANGED <<pending_host_replay, selected_injection_file, monitoring_active,
                   start_btn, stop_btn, restore_btn, gui_pc>>
    /\ UNCHANGED <<envVars, threadVars, fileVars, regionVars, lockVars, callVars>>

\* browse_injection_file: the dialog returns a path ("" when cancelled)
browse_injection_file ==
    /\ gui_pc = "idle"
    /\ \E file_path \in {"", InjectionFile} :
         IF file_path # ""
         THEN /\ selected_injection_file' = file_path
              /\ injection_ready' =
                   update_injection_ready(host_confirmed, selected_host_replay, file_path)
         ELSE UNCHANGED <<selected_injection_file, injection_ready>>
    /\ UNCHANGED <<pending_host_replay, selected_host_replay, host_confirmed,
                   monitoring_active, start_btn, stop_btn, restore_btn,
                   confirm_host_btn, gui_pc>>
    /\ UNCHANGED <<envVars, threadVars, fileVars, regionVars, lockVars, callVars>>

\* ------------------------------------------------- GUI: injection monitoring
FreeThreads == {t \in Threads : t_pc[t] = "none"}
AliveThreads == Threads \ FreeThreads

\* a start that forgets the readiness checks
start_checks_session_only(ready, session, host, injection) == session

\* the three early returns of start_injection_monitoring: not ready, no session,
\* a selection missing
start_checks(ready, session, host, injection) ==
    IF ~ready THEN FALSE
    ELSE IF ~session THEN FALSE
    ELSE IF host = None \/ injection = None THEN FALSE
    ELSE TRUE

\* start_injection_monitoring up to the modal "Injection Active" box
start_injection_monitoring ==
    /\ gui_pc = "idle"
    /\ start_btn = "normal"
    /\ FreeThreads # {}
    /\ IF start_checks(injection_ready, get_session_info,
                       selected_host_replay, selected_injection_file)
       THEN /\ monitoring_active' = TRUE
            /\ start_btn' = "disabled"
            /\ stop_btn' = "normal"
            /\ gui_pc' = "dialog"
       ELSE UNCHANGED <<monitoring_active, start_btn, stop_btn, gui_pc>>
    /\ UNCHANGED <<selVars, restore_btn>>
    /\ UNCHANGED <<envVars, threadVars, fileVars, regionVars, lockVars, callVars>>

\* start_injection_monitoring after the box is dismissed: the thread starts
\* (the threads are alike, so the new one takes the lowest free slot)
start_monitor_thread ==
    /\ gui_pc = "dialog"
    /\ LET t == CHOOSE f \in FreeThreads : \A g \in FreeThreads : f <= g IN
         /\ t_pc' = [t_pc EXCEPT ![t] = "check"]
         /\ previous_state' = [previous_state EXCEPT ![t] = None]
         /\ last_polled' = [last_polled EXCEPT ![t] = None]
         /\ injected_over' = [injected_over EXCEPT ![t] = None]
    /\ gui_pc' = "idle"
    /\ UNCHANGED <<selVars, monitoring_active, start_btn, stop_btn, restore_btn>>
    /\ UNCHANGED <<envVars, fileVars, regionVars, lockVars, callVars>>

stop_monitoring ==
    /\ gui_pc = "idle"
    /\ stop_btn = "normal"
    /\ monitoring_active' = FALSE
    /\ start_btn' = "normal"
    /\ stop_btn' = "disabled"
    /\ UNCHANGED <<selVars, restore_btn, gui_pc>>
    /\ UNCHANGED <<envVars, threadVars, fileVars, regionVars, lockVars, callVars>>

\* the Restore Original button
restore_original_click ==
    /\ gui_pc = "idle"
    /\ restore_btn = "normal"
    /\ \E ok \in BOOLEAN : restore_original(ok)
    /\ UNCHANGED <<selVars, monitoring_active, start_btn, stop_btn, gui_pc>>
    /\ UNCHANGED <<envVars, threadVars, regionVars, lockVars, callVars>>

\* ------------------------------------------------ custom_monitoring_loop (poll thread)
\* `while self.monitoring_active:` -- the loop ends when the flag is seen false
loop_check(t) ==
    /\ t_pc[t] = "check"
    /\ IF monitoring_active
       THEN /\ t_pc' = [t_pc EXCEPT ![t] = "poll"]
            /\ UNCHANGED <<previous_state, last_polled, injected_over>>
       ELSE /\ t_pc' = [t_pc EXCEPT ![t] = "none"]
            /\ previous_state' = [previous_state EXCEPT ![t] = None]
            /\ last_polled' = [last_polled EXCEPT ![t] = None]
            /\ injected_over' = [injected_over EXCEPT ![t] = None]
    /\ UNCHANGED <<envVars, guiVars, fileVars, regionVars, lockVars, callVars>>

\* where one poll leads: the thread's next position and previous_state.
\* A `continue` goes back to the loop head without `previous_state = current_state`.
poll_outcome(prev, cur, host, injection) ==
    IF cur # prev
    THEN IF prev = "MENUS" /\ cur = "REPLAY"
         THEN IF host = None \/ injection = None
              THEN [pc |-> "check", previous_state |-> prev]
              ELSE [pc |-> "backup", previous_state |-> prev]
         ELSE IF prev = "REPLAY" /\ cur = "MENUS"
         THEN [pc |-> "restore", previous_state |-> prev]
         ELSE [pc |-> "check", previous_state |-> cur]
    ELSE [pc |-> "check", previous_state |-> cur]

\* session = get_session_info(); the state-change detection
loop_poll(t) ==
    /\ t_pc[t] = "poll"
    /\ IF ~get_session_info
       THEN /\ t_pc' = [t_pc EXCEPT ![t] = "check"]
            /\ UNCHANGED <<previous_state, last_polled, injected_over>>
       ELSE LET o == poll_outcome(previous_state[t], client,
                                  selected_host_replay, selected_injection_file) IN
            /\ t_pc' = [t_pc EXCEPT ![t] = o.pc]
            /\ previous_state' = [previous_state EXCEPT ![t] = o.previous_state]
            /\ last_polled' = [last_polled EXCEPT ![t] = client]
            /\ injected_over' =
                 IF client # previous_state[t] /\ o.pc # "restore"
                 THEN [injected_over EXCEPT ![t] = None]
                 ELSE injected_over
    /\ UNCHANGED <<envVars, guiVars, fileVars, regionVars, lockVars, callVars>>

\* backup_success = self.file_manager.backup_file(host_path); on failure `continue`
loop_backup(t) ==
    /\ t_pc[t] = "backup"
    /\ \E ok \in BOOLEAN :
         LET f == backup_file(host_content, backups, current_backup, now, ok) IN
         /\ SetFiles(f)
         /\ t_pc' = [t_pc EXCEPT ![t] = IF f.result THEN "inject" ELSE "check"]
    /\ UNCHANGED <<previous_state, last_polled, injected_over>>
    /\ UNCHANGED <<envVars, guiVars, regionVars, lockVars, callVars>>

\* success = self.file_manager.inject_replay_file(host_path, injection_path);
\* then previous_state = current_state (REPLAY) at the end of the iteration
loop_inject(t) ==
    /\ t_pc[t] = "inject"
    /\ \E okBackup \in BOOLEAN, okCopy \in BOOLEAN :
         LET f == inject_replay_file(host_content, backups, current_backup, now,
                                     okBackup, okCopy) IN
         /\ SetFiles(f)
         /\ restore_btn' = IF f.result THEN "normal" ELSE restore_btn
         /\ injected_over' = [injected_over EXCEPT
                                 ![t] = IF f.result THEN host_content ELSE None]
    /\ t_pc' = [t_pc EXCEPT ![t] = "check"]
    /\ previous_state' = [previous_state EXCEPT ![t] = "REPLAY"]
    /\ UNCHANGED last_polled
    /\ UNCHANGED <<selVars, monitoring_active, start_btn, stop_btn, gui_pc>>
    /\ UNCHANGED <<envVars, regionVars, lockVars, callVars>>

\* self.restore_original(); then previous_state = current_state (MENUS)
loop_restore(t) ==
    /\ t_pc[t] = "restore"
    /\ \E ok \in BOOLEAN : restore_original(ok)
    /\ t_pc' = [t_pc EXCEPT ![t] = "check"]
    /\ previous_state' = [previous_state EXCEPT ![t] = "MENUS"]
    /\ UNCHANGED <<last_polled, injected_over>>
    /\ UNCHANGED <<selVars, monitoring_active, start_btn, stop_btn, gui_pc>>
    /\ UNCHANGED <<envVars, regionVars, lockVars, callVars>>

ThreadStep(t) ==
    \/ loop_check(t)
    \/ loop_poll(t)
    \/ loop_backup(t)
    \/ loop_inject(t)
    \/ loop_restore(t)

\* ------------------------------------------------------------ Spec: monitoring
Init ==
    /\ EnvInit /\ GuiInit /\ ThreadInit /\ FileInit /\ RegionIdle /\ LockIdle /\ CallIdle

Next ==
    \/ ClientChange
    \/ ClientUpDown
    \/ Tick
    \/ on_host_replay_hover
    \/ on_host_replay_unselect
    \/ confirm_host_selection
    \/ browse_injection_file
    \/ start_injection_monitoring
    \/ start_monitor_thread
    \/ stop_monitoring
    \/ restore_original_click
    \/ \E t \in Threads : ThreadStep(t)

Spec == Init /\ [][Next]_vars

\* the poll threads are scheduled: a thread that can step eventually does
FairSpec == Spec /\ \A t \in Threads : WF_vars(ThreadStep(t))

\* the application used so that a single poll loop exists: START INJECTION is
\* clicked again only after the loop of the earlier click has ended
SingleLoopNext ==
    \/ ClientChange
    \/ ClientUpDown
    \/ Tick
    \/ on_host_replay_hover
    \/ on_host_replay_unselect
    \/ confirm_host_selection
    \/ browse_injection_file
    \/ (AliveThreads = {} /\ start_injection_monitoring)
    \/ start_monitor_thread
    \/ stop_monitoring
    \/ restore_original_click
    \/ \E t \in Threads : ThreadStep(t)

SingleLoopSpec == Init /\ [][SingleLoopNext]_vars

\* ---------------------------------------------- RegionSpec: regions and metadata
\* VALORANT (the Riot Client lockfile) comes and goes
ValorantStart ==
    /\ ~lockfile_present
    /\ lockfile_present' = TRUE
    /\ UNCHANGED <<current_region, fetcher_region, credentials,
                   startup_detection_due, region_status, meta_left>>
    /\ UNCHANGED <<envVars, guiVars, threadVars, fileVars, lockVars, callVars>>

ValorantStop ==
    /\ lockfile_present
    /\ lockfile_present' = FALSE
    /\ UNCHANGED <<current_region, fetcher_region, credentials,
                   startup_detection_due, region_status, meta_left>>
    /\ UNCHANGED <<envVars, guiVars, threadVars, fileVars, lockVars, callVars>>

\* the body of auto_detect_region: `valid` says the lockfile has five fields,
\* `answers` is the set of regions whose config endpoint returns 200.
\* It sets region_config.current_region and the labels, nothing else.
auto_detect_body(valid, answers) ==
    IF ~lockfile_present
    THEN /\ region_status' = "lockfile_not_found"
         /\ UNCHANGED current_region
    ELSE IF ~valid
    THEN /\ region_status' = "invalid_lockfile"
         /\ UNCHANGED current_region
    ELSE LET detected_region == detect_region_from_config_endpoint(answers) IN
         IF detected_region # None
         THEN /\ current_region' = set_region(detected_region, current_region)
              /\ region_status' = IF set_region_ok(detected_region)
                                  THEN "detected" ELSE "set_failed"
         ELSE /\ region_status' = "not_detected"
              /\ UNCHANGED current_region

\* the "Detect Region from VALORANT" button
auto_detect_region(valid, answers) ==
    /\ auto_detect_body(valid, answers)
    /\ UNCHANGED <<fetcher_region, credentials, lockfile_present,
                   startup_detection_due, meta_left>>
    /\ UNCHANGED <<envVars, guiVars, threadVars, fileVars, lockVars, callVars>>

\* root.after(1000, attempt_startup_region_detection)
attempt_startup_region_detection ==
    /\ startup_detection_due
    /\ startup_detection_due' = FALSE
    /\ IF lockfile_present
       THEN \E valid \in BOOLEAN, answers \in SUBSET AvailableRegionCodes :
               auto_detect_body(valid, answers)
       ELSE /\ region_status' = "not_running"
            /\ UNCHANGED current_region
    /\ UNCHANGED <<fetcher_region, credentials, lockfile_present, meta_left>>
    /\ UNCHANGED <<envVars, guiVars, threadVars, fileVars, lockVars, callVars>>

\* save_region_selection: no widget command or binding invokes it, and
\* self.region_combo is created nowhere, so line 441 raises AttributeError and the
\* handler only sets the error text. It is not part of RegionNext.
save_region_selection ==
    /\ region_status' = "error"
    /\ UNCHANGED <<current_region, fetcher_region, credentials, lockfile_present,
                   startup_detection_due, meta_left>>
    /\ UNCHANGED <<envVars, guiVars, threadVars, fileVars, lockVars, callVars>>

RunningMeta == {m \in MetaThreads : meta_left[m] > 0}

\* refresh_replay_list (the Refresh List button): the rows are rebuilt and a new
\* load_metadata_async thread is started for the replays found
refresh_replay_list ==
    /\ \E m \in MetaThreads \ RunningMeta :
         meta_left' = [meta_left EXCEPT ![m] = NReplays]
    /\ UNCHANGED <<current_region, fetcher_region, credentials, lockfile_present,
                   startup_detection_due, region_status>>
    /\ UNCHANGED <<envVars, guiVars, threadVars, fileVars, lockVars, callVars>>

\* load_metadata_async: one get_replay_metadata call (with metadata_fetcher.region);
\* the thread ends after the last replay
load_metadata_async(m) ==
    /\ meta_left[m] > 0
    /\ meta_left' = [meta_left EXCEPT ![m] = meta_left[m] - 1]
    /\ UNCHANGED <<current_region, fetcher_region, credentials, lockfile_present,
                   startup_detection_due, region_status>>
    /\ UNCHANGED <<envVars, guiVars, threadVars, fileVars, lockVars, callVars>>

\* after construction: region 'na', the fetcher reads it, SessionMonitor reads the
\* credentials (None without lockfile or on an error), the startup detection is
\* scheduled and the first refresh_replay_list has started its thread
RegionInit ==
    /\ EnvInit /\ GuiInit /\ ThreadInit /\ FileInit /\ LockIdle /\ CallIdle
    /\ current_region = "na"
    /\ fetcher_region = "na"
    /\ lockfile_present \in BOOLEAN
    /\ credentials \in (IF lockfile_present
                        THEN {<<>>, <<get_glz_api_base("na")>>} ELSE {<<>>})
    /\ startup_detection_due = TRUE
    /\ region_status = "default"
    /\ meta_left = [m \in MetaThreads |-> IF m = 1 THEN NReplays ELSE 0]

RegionNext ==
    \/ ValorantStart
    \/ ValorantStop
    \/ \E valid \in BOOLEAN, answers \in SUBSET AvailableRegionCodes :
          auto_detect_region(valid, answers)
    \/ attempt_startup_region_detection
    \/ refresh_replay_list
    \/ \E m \in MetaThreads : load_metadata_async(m)

RegionSpec == RegionInit /\ [][RegionNext]_vars

\* The user may repeat every action and the client may give every answer again and
\* again: VALORANT is started again whenever it is down, and every detection
\* outcome that stays possible is eventually taken; the metadata threads run.
FairRegionSpec ==
    /\ RegionSpec
    /\ SF_vars(ValorantStart)
    /\ \A r \in AvailableRegionCodes :
          SF_vars(lockfile_present /\ auto_detect_region(TRUE, {r}))
    /\ \A m \in MetaThreads : WF_vars(load_metadata_async(m))

\* ------------------------------------------------- LockSpec: tool processes start
RunningProcs == {p \in Procs : p_pc[p] = "running"}

\* __init__: `if os.path.exists(lock_file)` -- showerror and sys.exit(1), else go on
lock_check(p) ==
    /\ p_pc[p] = "start"
    /\ p_pc' = [p_pc EXCEPT ![p] = IF lock_exists THEN "exited" ELSE "checked"]
    /\ UNCHANGED <<lock_exists, lock_pid>>
    /\ UNCHANGED <<envVars, guiVars, threadVars, fileVars, regionVars, callVars>>

\* __init__: `with open(lock_file, 'w') as f: f.write(str(os.getpid()))`, then the
\* main window is created
lock_create(p) ==
    /\ p_pc[p] = "checked"
    /\ lock_exists' = TRUE
    /\ lock_pid' = p
    /\ p_pc' = [p_pc EXCEPT ![p] = "running"]
    /\ UNCHANGED <<envVars, guiVars, threadVars, fileVars, regionVars, callVars>>

\* run.on_closing: remove the lock file if it exists, destroy the window
on_closing(p) ==
    /\ p_pc[p] = "running"
    /\ lock_exists' = FALSE
    /\ lock_pid' = IF lock_exists THEN 0 ELSE lock_pid
    /\ p_pc' = [p_pc EXCEPT ![p] = "closed"]
    /\ UNCHANGED <<envVars, guiVars, threadVars, fileVars, regionVars, callVars>>

\* the user launches the tool again
launch_again(p) ==
    /\ p_pc[p] \in {"exited", "closed"}
    /\ p_pc' = [p_pc EXCEPT ![p] = "start"]
    /\ UNCHANGED <<lock_exists, lock_pid>>
    /\ UNCHANGED <<envVars, guiVars, threadVars, fileVars, regionVars, callVars>>

LockInit ==
    /\ EnvInit /\ GuiInit /\ ThreadInit /\ FileInit /\ RegionIdle /\ LockIdle /\ CallIdle

LockNext ==
    \E p \in Procs :
       \/ lock_check(p)
       \/ lock_create(p)
       \/ on_closing(p)
       \/ launch_again(p)

LockSpec == LockInit /\ [][LockNext]_vars

\* ------------------------------------------- ConfigSpec: calls of RegionConfig
MATCH_HISTORY_QUERY_ENDPOINTS ==
    [s \in {"na", "eu", "ap", "kr", "pbe"} |->
        CASE s = "na" -> "usw2.pp.sgp.pvp.net"
          [] s = "eu" -> "euw3.pp.sgp.pvp.net"
          [] s = "ap" -> "apse1.pp.sgp.pvp.net"
          [] s = "kr" -> "kr.pp.sgp.pvp.net"
          [] s = "pbe" -> "usw2.pp.sgp.pvp.net"]

\* `region = region or self.current_region`: None and '' are falsy
region_or(region, cur) == IF region \in {None, ""} THEN cur ELSE region

\* f"https://{endpoint}"
get_match_history_api_base(region) ==
    LET shard == get_shard(region) IN
    <<"https", IF shard \in DOMAIN MATCH_HISTORY_QUERY_ENDPOINTS
               THEN MATCH_HISTORY_QUERY_ENDPOINTS[shard]
               ELSE MATCH_HISTORY_QUERY_ENDPOINTS["na"]>>

\* f"https://pd.{shard}.a.pvp.net"
get_pd_api_base(region) == <<"pd", get_shard(region)>>

\* f"https://shared.{shard}.a.pvp.net"
get_shared_api_base(region) == <<"shared", get_shard(region)>>

\* get_all_api_endpoints(region): each getter replaces a falsy region by the
\* current one
get_all_api_endpoints(region, cur) ==
    [match_history_query |-> get_match_history_api_base(region_or(region, cur)),
     player_data         |-> get_pd_api_base(region_or(region, cur)),
     glz                 |-> get_glz_api_base(region_or(region, cur)),
     shared              |-> get_shared_api_base(region_or(region, cur))]

\* the arguments of a getter: a code, or None for no argument
GetterArgs == RegionCodes \cup {None}

call_set_region(region) ==
    /\ current_region' = set_region(region, current_region)
    /\ last_call' = <<"set_region", region>>
    /\ last_result' = set_region_ok(region)
    /\ UNCHANGED <<fetcher_region, credentials, lockfile_present,
                   startup_detection_due, region_status, meta_left>>
    /\ UNCHANGED <<envVars, guiVars, threadVars, fileVars, lockVars>>

call_get_shard(region) ==
    /\ last_call' = <<"get_shard", region>>
    /\ last_result' = get_shard(region_or(region, current_region))
    /\ UNCHANGED <<envVars, guiVars, threadVars, fileVars, regionVars, lockVars>>

call_get_all_api_endpoints(region) ==
    /\ last_call' = <<"get_all_api_endpoints", region>>
    /\ last_result' = get_all_api_endpoints(region, current_region)
    /\ UNCHANGED <<envVars, guiVars, threadVars, fileVars, regionVars, lockVars>>

\* a new RegionConfig: current_region = 'na'
ConfigInit ==
    /\ EnvInit /\ GuiInit /\ ThreadInit /\ FileInit /\ RegionIdle /\ LockIdle /\ CallIdle

ConfigNext ==
    \/ \E region \in RegionCodes : call_set_region(region)
    \/ \E region \in GetterArgs : call_get_shard(region)
    \/ \E region \in GetterArgs : call_get_all_api_endpoints(region)

ConfigSpec == ConfigInit /\ [][ConfigNext]_vars

\* ------------------------------------- FileSpec: calls of ReplayFileManager
\* last_call holds the method and whether each shutil.copy2 of the call succeeded
call_backup_file(ok) ==
    LET f == backup_file(host_content, backups, current_backup, now, ok) IN
    /\ SetFiles(f)
    /\ last_call' = <<"backup_file", ok>>
    /\ last_result' = f.result
    /\ UNCHANGED <<envVars, guiVars, threadVars, regionVars, lockVars>>

call_inject_replay_file(okBackup, okCopy) ==
    LET f == inject_replay_file(host_content, backups, current_backup, now,
                                okBackup, okCopy) IN
    /\ SetFiles(f)
    /\ last_call' = <<"inject_replay_file", okBackup, okCopy>>
    /\ last_result' = f.result
    /\ UNCHANGED <<envVars, guiVars, threadVars, regionVars, lockVars>>

call_restore_original_file(ok) ==
    LET f == restore_original_file(host_content, backups, current_backup,
                                   last_copy_ok, ok) IN
    /\ SetFiles(f)
    /\ last_call' = <<"restore_original_file", ok>>
    /\ last_result' = f.result
    /\ UNCHANGED <<envVars, guiVars, threadVars, regionVars, lockVars>>

\* a new ReplayFileManager: current_backup = None, the host file as downloaded
FileSpecInit ==
    /\ EnvInit /\ GuiInit /\ ThreadInit /\ FileInit /\ RegionIdle /\ LockIdle /\ CallIdle

FileNext ==
    \/ Tick
    \/ \E ok \in BOOLEAN : call_backup_file(ok)
    \/ \E okBackup \in BOOLEAN, okCopy \in BOOLEAN :
          call_inject_replay_file(okBackup, okCopy)
    \/ \E ok \in BOOLEAN : call_restore_original_file(ok)

FileSpec == FileSpecInit /\ [][FileNext]_vars

\* ------------------------- MetadataSpec: calls of ReplayMetadataFetcher
\* What the three sources answer: None for a failed request (or missing tokens),
\* "empty" for an empty answer ({} or []), which Python also takes as false;
\* the match history may hold only other matches or an entry with the match id.
DetailsAnswers == {None, "empty", "details"}
HistoryAnswers == {None, "empty", "other_matches", "with_match"}
SummaryAnswers == {None, "empty", "summary"}

\* Python truth of an answer
truthy(answer) == answer \notin {None, "empty"}

ReplayFilenames == {"0a1b2c3d-0000-4000-8000-00000000abcd.vrf", "highlights.vrf"}

\* the name without .vrf when it has the UUID format, else None
extract_match_id_from_filename(filename) ==
    IF filename = "0a1b2c3d-0000-4000-8000-00000000abcd.vrf"
    THEN "0a1b2c3d-0000-4000-8000-00000000abcd"
    ELSE None

\* a fallback that takes any non-empty history as a hit
get_replay_metadata_any_entry(region, filename, details, history, summary) ==
    IF region \in {None, ""}
    THEN [queries |-> <<>>, error |-> "Please select a region first", from |-> None]
    ELSE IF extract_match_id_from_filename(filename) = None
    THEN [queries |-> <<>>, error |-> "Invalid filename format", from |-> None]
    ELSE IF truthy(details)
    THEN [queries |-> <<"match_details">>, error |-> None, from |-> "match_details"]
    ELSE IF truthy(history)
    THEN [queries |-> <<"match_details", "match_history">>, error |-> None,
          from |-> "match_history"]
    ELSE IF truthy(summary)
    THEN [queries |-> <<"match_details", "match_history", "replay_summary">>,
          error |-> None, from |-> "replay_summary"]
    ELSE [queries |-> <<"match_details", "match_history", "replay_summary">>,
          error |-> "Could not fetch match data", from |-> None]

\* get_replay_metadata(replay_filename): the sources queried, in order, the
\* record's error field (None when it has none) and the source the record is
\* built from
get_replay_metadata(region, filename, details, history, summary) ==
    IF region \in {None, ""}
    THEN [queries |-> <<>>, error |-> "Please select a region first", from |-> None]
    ELSE IF extract_match_id_from_filename(filename) = None
    THEN [queries |-> <<>>, error |-> "Invalid filename format", from |-> None]
    ELSE IF truthy(details)
    THEN [queries |-> <<"match_details">>, error |-> None, from |-> "match_details"]
    ELSE IF truthy(history) /\ history = "with_match"
    THEN [queries |-> <<"match_details", "match_history">>, error |-> None,
          from |-> "match_history"]
    ELSE IF truthy(summary)
    THEN [queries |-> <<"match_details", "match_history", "replay_summary">>,
          error |-> None, from |-> "replay_summary"]
    ELSE [queries |-> <<"match_details", "match_history", "replay_summary">>,
          error |-> "Could not fetch match data", from |-> None]

\* ReplayMetadataFetcher.update_region(new_region)
call_update_region(new_region) ==
    /\ fetcher_region' = new_region
    /\ last_call' = <<"update_region", new_region>>
    /\ last_result' = None
    /\ UNCHANGED <<current_region, credentials, lockfile_present,
                   startup_detection_due, region_status, meta_left>>
    /\ UNCHANGED <<envVars, guiVars, threadVars, fileVars, lockVars>>

call_get_replay_metadata(filename, details, history, summary) ==
    /\ last_call' = <<"get_replay_metadata", filename, details, history, summary>>
    /\ last_result' = get_replay_metadata(fetcher_region, filename, details,
                                          history, summary)
    /\ UNCHANGED <<envVars, guiVars, threadVars, fileVars, regionVars, lockVars>>

\* a new ReplayMetadataFetcher: region = region_config.current_region
MetadataInit ==
    /\ EnvInit /\ GuiInit /\ ThreadInit /\ FileInit /\ RegionIdle /\ LockIdle /\ CallIdle

MetadataNext ==
    \/ \E new_region \in AvailableRegionCodes \cup {""} : call_update_region(new_region)
    \/ \E filename \in ReplayFilenames, details \in DetailsAnswers,
          history \in HistoryAnswers, summary \in SummaryAnswers :
          call_get_replay_metadata(filename, details, history, summary)

MetadataSpec == MetadataInit /\ [][MetadataNext]_vars

\* ===================================================================== claims
\* C1 -- In the poll loop a file operation happens only on a change between two
\* consecutive successfully polled loopState values: the loop goes on to backup and
\* injection only when the previous polled value is MENUS and the current one is
\* REPLAY, to restore only when the previous polled value is REPLAY and the current
\* one is MENUS; no other pair (the first poll included) leads to a file operation.
\* (The loop reaches a file operation only from a poll.)
C1Claim ==
    [][\A t \in Threads :
         /\ (t_pc[t] = "poll" /\ t_pc'[t] = "backup")
               => (last_polled[t] = "MENUS" /\ last_polled'[t] = "REPLAY")
         /\ (t_pc[t] = "poll" /\ t_pc'[t] = "restore")
               => (last_polled[t] = "REPLAY" /\ last_polled'[t] = "MENUS")
         /\ (t_pc[t] # "poll" /\ t_pc'[t] \in {"backup", "restore"}) => t_pc'[t] = t_pc[t]
      ]_vars

\* C2 -- At most one poll loop is alive at any time, whatever the sequence of
\* START INJECTION and Stop Monitor clicks.
C2Claim == Cardinality(AliveThreads) <= 1

\* C4 -- The monitor stops by itself after a successful injection: the loop
\* iteration that injects successfully (its last copy succeeded) either ends the
\* loop or leaves monitoring_active false, so that the next `while` test ends it.
C4Claim ==
    [][\A t \in Threads :
         (t_pc[t] = "inject" /\ t_pc'[t] # "inject" /\ last_copy_ok')
            => (t_pc'[t] = "none" \/ ~monitoring_active')
      ]_vars

\* C5 -- After an injection has overwritten the host replay, whenever the client
\* returns to MENUS the host replay eventually holds its original content again;
\* stated here even granting that the client then stays in MENUS, answers every
\* poll, and every file copy succeeds.
C5Claim ==
    []((host_content = "injected" /\ [](client = "MENUS" /\ client_up /\ last_copy_ok))
          => <>(host_content = "original"))

\* C8 -- After Stop Monitor (monitoring_active false, START INJECTION not clicked
\* again) no poll loop overwrites the host replay file.
C8Claim ==
    [][(host_content = "original" /\ host_content' = "injected") => monitoring_active]_vars

\* C9 -- monitoring_active is set, and a poll thread started, only when
\* injection_ready holds and the session poll of the click returns a session;
\* injection_ready holds only with a confirmed host replay and a selected injection
\* file; so monitoring_active implies both selections are set.
C9Theorem ==
    /\ [](monitoring_active =>
             (selected_host_replay # None /\ selected_injection_file # None))
    /\ [](injection_ready =>
             (host_confirmed /\ selected_host_replay # None
                /\ selected_injection_file # None))
    /\ [][(~monitoring_active /\ monitoring_active')
             => (injection_ready /\ get_session_info)]_vars
    /\ [][(\E t \in Threads : t_pc[t] = "none" /\ t_pc'[t] # "none")
             => (monitoring_active /\ injection_ready)]_vars

\* monitoring is active with its poll thread running
C9Witness ==
    /\ monitoring_active
    /\ AliveThreads # {}
    /\ selected_host_replay = HostFile
    /\ selected_injection_file = InjectionFile

\* C3 -- At most one load_metadata_async thread is running at any time, whatever
\* the sequence of refresh_replay_list calls.
C3Claim == Cardinality(RunningMeta) <= 1

\* C6 -- After auto_detect_region has succeeded, the detected region is the one used
\* for all API calls: the metadata fetcher's region is the current region and the
\* session monitor polls the GLZ endpoint of the current region.
C6Claim ==
    region_status = "detected" =>
       /\ fetcher_region = current_region
       /\ credentials # <<>> => credentials[1] = get_glz_api_base(current_region)

\* C7 -- Each of the seven supported regions can be made the current region through
\* the application: with the user repeating every action and the client giving
\* every answer again and again, each region is eventually the current one.
C7Claim == \A r \in AvailableRegionCodes : <>(current_region = r)

\* C10 -- At most one instance of the tool passes the lock-file check and creates
\* its main window, under every interleaving of the processes starting.
C10Claim == Cardinality(RunningProcs) <= 1

\* C11 -- The poll loop has no retry: for each observed MENUS to REPLAY change the
\* backup-and-inject sequence is attempted at most once, so a loop never starts the
\* sequence on a poll whose preceding successful poll already returned REPLAY (the
\* client stayed in REPLAY since the change that started the earlier attempt).
C11Claim ==
    [][\A t \in Threads :
         (t_pc[t] = "poll" /\ t_pc'[t] = "backup") => last_polled[t] # "REPLAY"
      ]_vars

\* C12 -- set_region(r) with a code r that is not one of the AVAILABLE_REGIONS codes
\* returns False and leaves current_region unchanged; after any sequence of
\* set_region calls from the default, current_region is one of the seven codes.
C12Theorem ==
    /\ [](current_region \in AvailableRegionCodes)
    /\ [][\A r \in OtherRegionCodes :
            last_call' = <<"set_region", r>>
               => (last_result' = FALSE /\ current_region' = current_region)]_vars

\* an invalid code was refused while a region other than the default was set
C12Witness ==
    /\ last_call = <<"set_region", "invalid_region">>
    /\ last_result = FALSE
    /\ current_region = "eu"

\* C13 -- A new RegionConfig has current_region 'na'; set_region(r) with r an
\* available code returns True and makes current_region equal r; current_region
\* changes only in a successful set_region.
C13Theorem ==
    /\ [](last_call = <<>> => current_region = "na")
    /\ [][\A r \in AvailableRegionCodes :
            last_call' = <<"set_region", r>>
               => (last_result' = TRUE /\ current_region' = r)]_vars
    /\ [][current_region' # current_region
            => (last_call' # <<>> /\ last_call'[1] = "set_region"
                  /\ last_result' = TRUE)]_vars

\* a region whose shard differs from its code has been set
C13Witness ==
    /\ last_call = <<"set_region", "latam">>
    /\ last_result = TRUE
    /\ current_region = "latam"

\* C14 (as stated) -- For every available region code get_shard returns its
\* REGION_SHARD_MAP entry (na, latam, br -> na; eu -> eu; ap -> ap; kr -> kr;
\* pbe -> pbe), a shard with a MATCH_HISTORY_QUERY_ENDPOINTS entry; for any code
\* outside the map get_shard returns 'na'; with no argument the current region is
\* used.
C14Claim ==
    LET shard_of == [na |-> "na", latam |-> "na", br |-> "na", eu |-> "eu",
                     ap |-> "ap", kr |-> "kr", pbe |-> "pbe"] IN
    /\ \A r \in AvailableRegionCodes :
          last_call = <<"get_shard", r>>
             => (last_result = shard_of[r]
                   /\ last_result \in DOMAIN MATCH_HISTORY_QUERY_ENDPOINTS)
    /\ \A r \in OtherRegionCodes :
          last_call = <<"get_shard", r>> => last_result = "na"
    /\ last_call = <<"get_shard", None>> => last_result = shard_of[current_region]

\* C14 (amended) -- as C14, but only a non-empty code outside the map gives 'na';
\* the empty code is treated as no argument: the current region is used.
C14Theorem ==
    LET shard_of == [na |-> "na", latam |-> "na", br |-> "na", eu |-> "eu",
                     ap |-> "ap", kr |-> "kr", pbe |-> "pbe"] IN
    /\ \A r \in AvailableRegionCodes :
          last_call = <<"get_shard", r>>
             => (last_result = shard_of[r]
                   /\ last_result \in DOMAIN MATCH_HISTORY_QUERY_ENDPOINTS)
    /\ \A r \in OtherRegionCodes \ {""} :
          last_call = <<"get_shard", r>> => last_result = "na"
    /\ last_call \in {<<"get_shard", None>>, <<"get_shard", "">>}
          => last_result = shard_of[current_region]

\* get_shard was asked for an unknown code while the current region's shard is eu
C14Witness ==
    /\ last_call = <<"get_shard", "invalid_region">>
    /\ last_result = "na"
    /\ current_region = "eu"

\* C15 -- For every region r, get_all_api_endpoints(r) returns exactly the four
\* entries match_history_query, player_data, glz and shared: the match-history
\* host is the MATCH_HISTORY_QUERY_ENDPOINTS entry of r's shard, the player-data
\* and shared hosts are built from the shard, the glz host from the region code
\* and the shard (r is the current region when none is given); the call changes
\* no state.
C15Theorem ==
    /\ [](\A r \in GetterArgs :
            last_call = <<"get_all_api_endpoints", r>> =>
               LET shard_of == [na |-> "na", latam |-> "na", br |-> "na",
                                eu |-> "eu", ap |-> "ap", kr |-> "kr",
                                pbe |-> "pbe"]
                   host_of  == [na |-> "usw2.pp.sgp.pvp.net",
                                eu |-> "euw3.pp.sgp.pvp.net",
                                ap |-> "apse1.pp.sgp.pvp.net",
                                kr |-> "kr.pp.sgp.pvp.net",
                                pbe |-> "usw2.pp.sgp.pvp.net"]
                   e     == IF r \in {None, ""} THEN current_region ELSE r
                   shard == IF e \in DOMAIN shard_of THEN shard_of[e] ELSE "na"
               IN /\ DOMAIN last_result
                       = {"match_history_query", "player_data", "glz", "shared"}
                  /\ last_result.match_history_query = <<"https", host_of[shard]>>
                  /\ last_result.player_data = <<"pd", shard>>
                  /\ last_result.glz = <<"glz", e, shard>>
                  /\ last_result.shared = <<"shared", shard>>)
    /\ [][(last_call' # <<>> /\ last_call'[1] = "get_all_api_endpoints")
            => UNCHANGED <<envVars, guiVars, threadVars, fileVars, regionVars,
                           lockVars>>]_vars

\* the endpoints of a region whose shard differs from its code were asked for
C15Witness ==
    /\ last_call = <<"get_all_api_endpoints", "latam">>
    /\ last_result.glz = <<"glz", "latam", "na">>
    /\ last_result.match_history_query = <<"https", "usw2.pp.sgp.pvp.net">>

\* C16 -- inject_replay_file creates the backup of the host file before it
\* overwrites the host file (a True return leaves a backup, made by this call, of
\* the content the host file had before the call); if the backup fails it returns
\* False and the host file is unchanged; if the copy of the injection file fails
\* it returns False; it returns True only when the host file holds the injection
\* file's content and current_backup refers to the backup made by this call.
C16Theorem ==
    [][\A okBackup \in BOOLEAN, okCopy \in BOOLEAN :
         call_inject_replay_file(okBackup, okCopy) =>
            /\ ~okBackup => (last_result' = FALSE /\ host_content' = host_content)
            /\ ~okCopy => last_result' = FALSE
            /\ last_result' = TRUE =>
                  /\ host_content' = "injected"
                  /\ current_backup' = <<now>>
                  /\ backups'[now] = host_content
      ]_vars

\* an injection returned True over the original host file
C16Witness ==
    /\ last_call = <<"inject_replay_file", TRUE, TRUE>>
    /\ last_result = TRUE
    /\ host_content = "injected"
    /\ current_backup # <<>>
    /\ backups[current_backup[1]] = "original"

C18Claim ==
    host_content = "injected"
       => (current_backup # <<>> /\ backups[current_backup[1]] = "original")

\* C19 -- For a filename with a valid match id and a configured region,
\* get_replay_metadata queries the sources in a fixed order: match details first;
\* match history only if match details returned nothing; the replay summary only
\* if the history returned nothing or had no entry with that match id; it returns
\* the record with error 'Could not fetch match data' only if all three yielded
\* nothing; it never queries a later source once an earlier one has produced the
\* result.
C19Theorem ==
    \A details \in DetailsAnswers, history \in HistoryAnswers,
       summary \in SummaryAnswers :
       (/\ last_call = <<"get_replay_metadata",
                         "0a1b2c3d-0000-4000-8000-00000000abcd.vrf",
                         details, history, summary>>
        /\ fetcher_region \in AvailableRegionCodes)
       => LET q == last_result.queries
              no_details == details \in {None, "empty"}
              no_entry   == history \in {None, "empty", "other_matches"}
              no_summary == summary \in {None, "empty"}
          IN /\ q \in {<<"match_details">>,
                       <<"match_details", "match_history">>,
                       <<"match_details", "match_history", "replay_summary">>}
             /\ Len(q) >= 2 <=> no_details
             /\ Len(q) = 3 <=> (no_details /\ no_entry)
             /\ last_result.error = "Could not fetch match data"
                   <=> (no_details /\ no_entry /\ no_summary)
             /\ last_result.from # None => last_result.from = q[Len(q)]
             /\ last_result.error \in {None, "Could not fetch match data"}

\* the details failed, the history held only other matches, the summary answered
C19Witness ==
    /\ last_call = <<"get_replay_metadata",
                     "0a1b2c3d-0000-4000-8000-00000000abcd.vrf",
                     None, "other_matches", "summary">>
    /\ fetcher_region = "eu"
    /\ last_result.queries = <<"match_details", "match_history", "replay_summary">>
    /\ last_result.from = "replay_summary"

====
